---- MODULE Spec2Model ----
(***************************************************************************)
(* tempered: rate limits (tempered/limits.py) and the multi-lane request   *)
(* manager (tempered/manager.py) as run by scripts/download_lol_matches.py *)
(*                                                                         *)
(* Time is a discrete wall clock `now` (time()).  asyncio.sleep(d) called  *)
(* at time t is a wake-up deadline t + d: the sleeper resumes at any clock *)
(* reading >= the deadline, never before it.                               *)
(***************************************************************************)
EXTENDS Integers, Sequences, FiniteSets, TLC

\* ------------------------------------------------------------------ bounds
MaxTime == 5        \* the clock stops advancing here
MaxCount == 2       \* largest `count` a limiter is constructed with
MaxOps == 5         \* pace/reset calls made on a stand-alone limiter
MaxItems == 3       \* schedule() calls made on a manager
MaxReq == 3         \* HTTP requests the lanes issue, all together
MgrMaxTime == 1     \* the clock of a manager run stops advancing here

Durations == {2, 3} \* `duration` values a windowed limiter is constructed with

VARIABLES
    now,        \* time()
    abs,        \* an AbsoluteRateLimit instance
    absHist,    \* what its callers observed
    dur,        \* a DurationRateLimit instance
    durTask,    \* the coroutine inside DurationRateLimit.__call__
    durLog,     \* clock readings at which its pace calls returned
    rnd,        \* a RandomizedDurationRateLimit instance
    rndTask,    \* the coroutine inside RandomizedDurationRateLimit.__call__
    rndHist,    \* its windows and consumed slots, as observed
    mgr,        \* RequestManager: max_requests_inflight, the event loop, counters
    heap,       \* _request_queue._queue, the heap list of the PriorityQueue
    putters,    \* _request_queue._putters: suspended schedule() callers
    getters,    \* _request_queue._getters: lanes suspended in get()
    caller,     \* the tasks that call schedule(): bootstrap and continuations
    lane,       \* the _request_handler coroutines, one per (headers, limits)
    limits,     \* each lane's tuple of RateLimit instances
    paceTask,   \* each lane's limit() coroutines under asyncio.gather
    reqLog,     \* each lane's HTTP requests: the clock readings they were issued at
    hist,       \* dequeues and continuation dispatches per enqueued item
    answer      \* what each lane's latest request attempt came to, as observed

absVars == <<abs, absHist>>
durVars == <<dur, durTask, durLog>>
rndVars == <<rnd, rndTask, rndHist>>
mgrVars == <<mgr, heap, putters, getters, caller, lane, limits, paceTask, reqLog, hist>>
vars == <<now, abs, absHist, dur, durTask, durLog, rnd, rndTask, rndHist,
          mgr, heap, putters, getters, caller, lane, limits, paceTask, reqLog, hist,
          answer>>

\* the clock: time() never runs backwards
Tick ==
    /\ now < MaxTime
    /\ now' = now + 1

\* ------------------------------------------------- AbsoluteRateLimit
AbsoluteRateLimit(count) == [count |-> count, _count |-> 0]

AbsoluteRateLimit_reset(self) == [self EXCEPT !._count = 0]

\* mutant: the limit test is off by one
AbsoluteRateLimit_call_Mut(self) ==
    IF self._count > self.count
    THEN [self |-> self, raised |-> TRUE]
    ELSE [self |-> [self EXCEPT !._count = @ + 1], raised |-> FALSE]

\* __call__: raises RateLimitException or counts the call
AbsoluteRateLimit_call(self) ==
    IF self._count >= self.count
    THEN [self |-> self, raised |-> TRUE]
    ELSE [self |-> [self EXCEPT !._count = @ + 1], raised |-> FALSE]

AbsIdle == [succ |-> 0, last |-> "none", succBefore |-> 0, usedBefore |-> 0,
            ops |-> 0, resets |-> 0]

AbsInit ==
    /\ abs \in {AbsoluteRateLimit(c) : c \in 0..MaxCount}
    /\ absHist = AbsIdle

AbsPace ==
    /\ absHist.ops < MaxOps
    /\ LET r == AbsoluteRateLimit_call(abs) IN
        /\ abs' = r.self
        /\ absHist' = [absHist EXCEPT
                !.succ = IF r.raised THEN @ ELSE @ + 1,
                !.last = IF r.raised THEN "raised" ELSE "ok",
                !.succBefore = absHist.succ,
                !.usedBefore = abs._count,
                !.ops = @ + 1]

AbsReset ==
    /\ absHist.ops < MaxOps
    /\ abs' = AbsoluteRateLimit_reset(abs)
    /\ absHist' = [absHist EXCEPT
            !.succ = 0, !.last = "reset", !.succBefore = absHist.succ,
            !.usedBefore = abs._count, !.ops = @ + 1, !.resets = @ + 1]

\* ------------------------------------------------- DurationRateLimit
DurationRateLimit(duration, count, t) ==
    [duration |-> duration, count |-> count, _time |-> t, _count |-> 0]

DurationRateLimit_reset(self, current_time) ==
    [self EXCEPT !._time = current_time, !._count = 0]

\* __call__ up to its await: the expiry test, then either the sleep for the
\* rest of the window or the increment
DurationRateLimit_call(self, current_time) ==
    LET s == IF (current_time - self._time) > self.duration
             THEN DurationRateLimit_reset(self, current_time)
             ELSE self
    IN  IF s._count >= s.count
        THEN [self |-> s, sleep |-> TRUE,
              wake |-> current_time + (s.duration - (current_time - s._time))]
        ELSE [self |-> [s EXCEPT !._count = @ + 1], sleep |-> FALSE, wake |-> 0]

\* __call__ after the sleep: reset(time()) and the increment
DurationRateLimit_resume(self, t) ==
    [DurationRateLimit_reset(self, t) EXCEPT !._count = @ + 1]

TaskIdle == [pc |-> "idle", wake |-> 0]

DurInit ==
    /\ dur \in {DurationRateLimit(d, c, 0) : d \in Durations, c \in 0..MaxCount}
    /\ durTask = TaskIdle
    /\ durLog = <<>>

\* a caller paces: pace() is called at the clock reading `now`
DurPace ==
    /\ durTask.pc = "idle"
    /\ Len(durLog) < MaxOps
    /\ LET r == DurationRateLimit_call(dur, now) IN
        /\ dur' = r.self
        /\ durTask' = IF r.sleep THEN [pc |-> "sleeping", wake |-> r.wake] ELSE TaskIdle
        /\ durLog' = IF r.sleep THEN durLog ELSE Append(durLog, now)

\* the sleep of a stalled pace() ends and the call returns
DurWake ==
    /\ durTask.pc = "sleeping"
    /\ now >= durTask.wake
    /\ dur' = DurationRateLimit_resume(dur, now)
    /\ durTask' = TaskIdle
    /\ durLog' = Append(durLog, now)

\* ------------------------------------------------- RandomizedDurationRateLimit
IsSorted(s) == \A i, j \in DOMAIN s : i <= j => s[i] <= s[j]

\* mutant: the drawn request times are left unsorted
NewRequestTimes_Mut(timestamp, duration, count) ==
    [1..count -> timestamp..(timestamp + duration)]

\* _new_request_times: every outcome of count draws of
\* timestamp + uniform(0.0, duration), sorted
NewRequestTimes(timestamp, duration, count) ==
    {s \in [1..count -> timestamp..(timestamp + duration)] : IsSorted(s)}

RandomizedDurationRateLimit(duration, count, t, request_times) ==
    [duration |-> duration, count |-> count, _time |-> t, _count |-> 0,
     _request_times |-> request_times]

RandomizedDurationRateLimit_reset(self, current_time, request_times) ==
    [self EXCEPT !._time = current_time, !._count = 0,
                 !._request_times = request_times]

\* mutant: with no request time left to take the call just returns
RandomizedDurationRateLimit_take_Mut(self, current_time) ==
    IF self._count + 1 > Len(self._request_times)
    THEN [self |-> self, raised |-> FALSE, sleep |-> FALSE, wake |-> 0,
          slot |-> current_time]
    ELSE LET next_request_time == self._request_times[self._count + 1] IN
         [self |-> [self EXCEPT !._count = @ + 1], raised |-> FALSE,
          sleep |-> next_request_time > current_time,
          wake |-> next_request_time, slot |-> next_request_time]

\* __call__, lines 112-117: take the next request time and count it; sleep
\* if it lies ahead.  Indexing an empty list raises IndexError.
RandomizedDurationRateLimit_take(self, current_time) ==
    IF self._count + 1 > Len(self._request_times)
    THEN [self |-> self, raised |-> TRUE, sleep |-> FALSE, wake |-> 0, slot |-> 0]
    ELSE LET next_request_time == self._request_times[self._count + 1] IN
         [self |-> [self EXCEPT !._count = @ + 1], raised |-> FALSE,
          sleep |-> next_request_time > current_time,
          wake |-> next_request_time, slot |-> next_request_time]

\* __call__, line 97: every request time of the window is used up
RandomizedDurationRateLimit_exhausted(self) ==
    self._count >= Len(self._request_times)

\* __call__, line 108: the window has run out with request times left
RandomizedDurationRateLimit_expired(self, current_time) ==
    (current_time - self._time) > self.duration

\* log: the clock readings at which pace() calls returned; ext: reset() was
\* called by the owner, not only by pace() itself
RndIdle == [prev |-> <<>>, by |-> "init", consumed |-> <<>>, ops |-> 0,
            last |-> "none", windows |-> 0, log |-> <<>>, ext |-> FALSE]

RndInit ==
    /\ \E d \in Durations, c \in 0..MaxCount :
        \E rt \in NewRequestTimes(0, d, c) :
            rnd = RandomizedDurationRateLimit(d, c, 0, rt)
    /\ rndTask = TaskIdle
    /\ rndHist = RndIdle

\* history of a window started at a reset
RndNewWindow(h, by) ==
    [h EXCEPT !.prev = rnd._request_times, !.by = by, !.consumed = <<>>,
              !.windows = @ + 1]

\* history and coroutine state after the lines 112-117
RndAfterTake(r, h) ==
    /\ rnd' = r.self
    /\ rndTask' = IF r.raised THEN TaskIdle
                  ELSE IF r.sleep THEN [pc |-> "sleep_slot", wake |-> r.wake]
                  ELSE TaskIdle
    /\ rndHist' = [h EXCEPT
            !.consumed = IF r.raised THEN @ ELSE Append(@, r.slot),
            !.last = IF r.raised THEN "IndexError"
                     ELSE IF r.sleep THEN "waiting" ELSE "returned",
            !.log = IF r.raised \/ r.sleep THEN @ ELSE Append(@, now),
            !.ops = @ + 1]

\* pace() is called at the clock reading `now`
RndPace ==
    /\ rndTask.pc = "idle"
    /\ rndHist.ops < MaxOps
    /\ IF RandomizedDurationRateLimit_exhausted(rnd)
       THEN /\ rndTask' = [pc |-> "sleep_reset",
                           wake |-> now + (rnd.duration - (now - rnd._time))]
            /\ rndHist' = [rndHist EXCEPT !.last = "waiting"]
            /\ UNCHANGED rnd
       ELSE IF RandomizedDurationRateLimit_expired(rnd, now)
       THEN \E rt \in NewRequestTimes(now, rnd.duration, rnd.count) :
                RndAfterTake(
                    RandomizedDurationRateLimit_take(
                        RandomizedDurationRateLimit_reset(rnd, now, rt), now),
                    RndNewWindow(rndHist, "pace"))
       ELSE RndAfterTake(RandomizedDurationRateLimit_take(rnd, now), rndHist)

\* the sleep to the end of a used-up window ends: reset(time()), then the
\* first request time of the new window is taken
RndWakeReset ==
    /\ rndTask.pc = "sleep_reset"
    /\ now >= rndTask.wake
    /\ \E rt \in NewRequestTimes(now, rnd.duration, rnd.count) :
        RndAfterTake(
            RandomizedDurationRateLimit_take(
                RandomizedDurationRateLimit_reset(rnd, now, rt), now),
            RndNewWindow(rndHist, "pace"))

\* the sleep to the taken request time ends and pace() returns
RndWakeSlot ==
    /\ rndTask.pc = "sleep_slot"
    /\ now >= rndTask.wake
    /\ rndTask' = TaskIdle
    /\ rndHist' = [rndHist EXCEPT !.last = "returned", !.log = Append(@, now)]
    /\ UNCHANGED rnd

\* the owner calls reset(time()) between two pace() calls
RndReset ==
    /\ rndTask.pc = "idle"
    /\ rndHist.ops < MaxOps
    /\ \E rt \in NewRequestTimes(now, rnd.duration, rnd.count) :
        /\ rnd' = RandomizedDurationRateLimit_reset(rnd, now, rt)
        /\ rndHist' = [RndNewWindow(rndHist, "reset") EXCEPT
                            !.last = "reset", !.ops = @ + 1, !.ext = TRUE]
    /\ UNCHANGED rndTask

\* ------------------------------------------------- the priority queue
\* asyncio.PriorityQueue keeps its items, the tuples
\* (priority, time(), url, callback), in a heapq list.  id and seq are not in
\* the tuple: id numbers the schedule() calls in the order they were made,
\* seq in the order they completed.
NoItem == [prio |-> 0, ts |-> 0, url |-> 0, cb |-> "none", id |-> 0, seq |-> 0]

\* the (priority, url, callback) a schedule() call is made with; urls are
\* numbered in their string order
ItemKinds ==
    {[prio |-> 0, url |-> 1, cb |-> "f"], [prio |-> 0, url |-> 2, cb |-> "f"],
     [prio |-> 1, url |-> 1, cb |-> "f"], [prio |-> 0, url |-> 1, cb |-> "g"]}

\* a < b on two queue tuples: the first differing field decides; two
\* different callbacks do not order and `<` raises TypeError
ItemLt(a, b) ==
    IF a.prio # b.prio THEN (IF a.prio < b.prio THEN "lt" ELSE "ge")
    ELSE IF a.ts # b.ts THEN (IF a.ts < b.ts THEN "lt" ELSE "ge")
    ELSE IF a.url # b.url THEN (IF a.url < b.url THEN "lt" ELSE "ge")
    ELSE IF a.cb = b.cb THEN "ge" ELSE "err"

Swap(h, i, j) == [h EXCEPT ![i] = h[j], ![j] = h[i]]

\* heapq _siftdown, positions from 0: the item at pos moves up while it is
\* smaller than its parent; a comparison that raises leaves the list as it is
RECURSIVE SiftDown(_, _, _)
SiftDown(h, startpos, pos) ==
    IF pos > startpos
    THEN LET parentpos == (pos - 1) \div 2
             c == ItemLt(h[pos + 1], h[parentpos + 1])
         IN  IF c = "err" THEN [heap |-> h, err |-> TRUE]
             ELSE IF c = "lt"
                  THEN SiftDown(Swap(h, pos + 1, parentpos + 1), startpos, parentpos)
                  ELSE [heap |-> h, err |-> FALSE]
    ELSE [heap |-> h, err |-> FALSE]

\* heapq _siftup: the smaller child moves up until a leaf is reached, then
\* the item is sifted down from there
RECURSIVE SiftUp(_, _)
SiftUp(h, pos) ==
    LET endpos == Len(h)
        limit == endpos \div 2
        childpos == 2 * pos + 1
    IN  IF pos < limit
        THEN LET c == IF childpos + 1 < endpos
                      THEN ItemLt(h[childpos + 1], h[childpos + 2])
                      ELSE "lt"
                 smaller == IF c = "lt" THEN childpos ELSE childpos + 1
             IN  IF c = "err" THEN [heap |-> h, err |-> TRUE]
                 ELSE SiftUp(Swap(h, pos + 1, smaller + 1), smaller)
        ELSE SiftDown(h, 0, pos)

\* PriorityQueue._put
heappush(h, item) == SiftDown(Append(h, item), 0, Len(h))

\* mutant: get() hands out the smallest item and leaves it in the queue
heappop_Mut(h) == [item |-> h[1], heap |-> h, err |-> FALSE]

\* PriorityQueue._get: the smallest item, the last one moved to the root and
\* sifted; when a comparison raises the popped item is gone
heappop(h) ==
    LET n == Len(h)
        rest == SubSeq(h, 1, n - 1)
    IN  IF n = 1 THEN [item |-> h[1], heap |-> <<>>, err |-> FALSE]
        ELSE LET r == SiftUp([rest EXCEPT ![1] = h[n]], 0)
             IN  [item |-> h[1], heap |-> r.heap, err |-> r.err]

\* mutant: the capacity test is off by one
Full_Mut(h, maxsize) == maxsize > 0 /\ Len(h) > maxsize

\* Queue.full(): maxsize <= 0 is an unbounded queue
Full(h, maxsize) == maxsize > 0 /\ Len(h) >= maxsize

HeapIds == {heap[i].id : i \in DOMAIN heap}
HeapItems == {heap[i] : i \in DOMAIN heap}

\* ------------------------------------------------- RequestManager
Lanes == {1, 2}
Callers == {1, 2}

\* the max_requests_inflight a manager is constructed with
MaxSizes == {0, 1, 2}

\* the limits tuples a lane is constructed with
LaneLimitSets ==
    {<<DurationRateLimit(1, 1, 0)>>, <<DurationRateLimit(1, 2, 0)>>}

\* In a manager run one clock tick is 10 seconds.
\* asyncio.sleep(10.0) after a ClientOSError
ClientOSErrorSleep == 1
\* the timeout of a 429 without a Retry-After header, 10.0
DefaultRetryAfter == 1
\* the delays a 429 is answered with: the header's value, or the default
RetryAfterDelays == {0, DefaultRetryAfter}

\* what one request attempt comes to: a 200 with a body, a 200 whose body
\* does not decode, a 429, a status of try_again, a ClientOSError, a status
\* of raise_error, a status of abort_request, any other status
Outcomes == {"Success", "NullBody", "RetryAfter", "Transient", "OSError",
             "Fatal", "Cancel", "Unhandled"}

\* item: the queue tuple in hand; req: the item the last GET was issued for;
\* tries: the GETs issued for the item in hand
LaneOff == [pc |-> "off", item |-> NoItem, req |-> NoItem, tries |-> 0,
            wake |-> 0, exc |-> "none"]
CallerIdle == [pc |-> "ready", item |-> NoItem]
\* per schedule() call: the dequeues of its item and the dispatches of its
\* callback; prios: the priorities schedule() was called with
HistIdle == [deq |-> [i \in 1..MaxItems |-> 0],
             dispatched |-> [i \in 1..MaxItems |-> 0],
             prios |-> {}]

\* __init__: the queue, and one _request_handler coroutine per pair
MgrInit ==
    /\ \E ls \in {{1}, Lanes}, k \in MaxSizes, lim \in LaneLimitSets :
        /\ mgr = [maxsize |-> k, lanes |-> ls, running |-> TRUE,
                  nextId |-> 1, nextSeq |-> 1, unfinished |-> 0]
        /\ lane = [l \in Lanes |-> IF l \in ls THEN [LaneOff EXCEPT !.pc = "get"]
                                   ELSE LaneOff]
        /\ limits = [l \in Lanes |-> lim]
        /\ paceTask = [l \in Lanes |-> [i \in DOMAIN lim |-> TaskIdle]]
    /\ heap = <<>>
    /\ putters = <<>>
    /\ getters = <<>>
    /\ caller = [c \in Callers |-> CallerIdle]
    /\ reqLog = [l \in Lanes |-> <<>>]
    /\ hist = HistIdle
    /\ answer = [l \in Lanes |-> "none"]

\* Queue.put_nowait for caller c: _put, then the task count and the wake-up
\* of the first waiting getter; a TypeError from _put skips both
PutNowait(c, item, cl, m) ==
    LET it == [item EXCEPT !.seq = m.nextSeq]
        r == heappush(heap, it)
    IN  /\ heap' = r.heap
        /\ IF r.err
           THEN /\ caller' = [caller EXCEPT ![c] =
                                [cl EXCEPT !.pc = "failed", !.item = NoItem]]
                /\ mgr' = [m EXCEPT !.nextSeq = @ + 1]
                /\ UNCHANGED <<getters, lane>>
           ELSE /\ caller' = [caller EXCEPT ![c] =
                                [cl EXCEPT !.pc = "ready", !.item = NoItem]]
                /\ mgr' = [m EXCEPT !.nextSeq = @ + 1, !.unfinished = @ + 1]
                /\ IF getters # <<>>
                   THEN /\ lane' = [lane EXCEPT ![Head(getters)].pc = "get_woken"]
                        /\ getters' = Tail(getters)
                   ELSE UNCHANGED <<getters, lane>>

\* schedule(url, callback, priority): the tuple is built, with time(), before
\* put() tests the queue; put() suspends while the queue is full.  The tasks
\* that call schedule() are alike: the call is made by the first idle one.
Schedule(c, kind) ==
    /\ mgr.running
    /\ caller[c].pc = "ready"
    /\ \A b \in Callers : b < c => caller[b].pc # "ready"
    /\ mgr.nextId <= MaxItems
    /\ LET item == [prio |-> kind.prio, ts |-> now, url |-> kind.url,
                    cb |-> kind.cb, id |-> mgr.nextId, seq |-> 0]
           cl == [caller[c] EXCEPT !.item = item]
       IN  IF Full(heap, mgr.maxsize)
           THEN /\ putters' = Append(putters, c)
                /\ caller' = [caller EXCEPT ![c] =
                                [cl EXCEPT !.pc = "put_wait"]]
                /\ mgr' = [mgr EXCEPT !.nextId = @ + 1]
                /\ UNCHANGED <<heap, getters, lane>>
           ELSE /\ PutNowait(c, item, cl, [mgr EXCEPT !.nextId = @ + 1])
                /\ UNCHANGED putters
    /\ hist' = [hist EXCEPT !.prios = @ \cup {kind.prio}]
    /\ UNCHANGED <<limits, paceTask, reqLog>>

\* put() resumes after a get() woke it: it tests the queue again, and waits
\* again, at the back, when another put() has filled the queue meanwhile
PutResume(c) ==
    /\ mgr.running
    /\ caller[c].pc = "put_woken"
    /\ IF Full(heap, mgr.maxsize)
       THEN /\ putters' = Append(putters, c)
            /\ caller' = [caller EXCEPT ![c].pc = "put_wait"]
            /\ UNCHANGED <<mgr, heap, getters, lane>>
       ELSE /\ PutNowait(c, caller[c].item, caller[c], mgr)
            /\ UNCHANGED putters
    /\ UNCHANGED <<limits, paceTask, reqLog, hist>>

\* the GETs issued so far, by all lanes
TotalReq == Len(reqLog[1]) + Len(reqLog[2])

PaceDone(l) == \A i \in DOMAIN paceTask[l] : paceTask[l][i].pc = "idle"

\* mutant: the lane goes back to get() without waiting for gather()
LaneGet_Mut(l) ==
    /\ mgr.running
    /\ \/ lane[l].pc = "get" /\ \A b \in mgr.lanes : b < l => lane[b].pc # "get"
       \/ lane[l].pc = "get_woken"
       \/ lane[l].pc = "pace"
    /\ IF heap = <<>>
       THEN /\ lane' = [lane EXCEPT ![l].pc = "get_wait"]
            /\ getters' = Append(getters, l)
            /\ UNCHANGED <<mgr, heap, putters, caller, reqLog, hist>>
       ELSE /\ TotalReq < MaxReq
            /\ LET r == heappop(heap) IN
                /\ heap' = r.heap
                /\ UNCHANGED getters
                /\ IF r.err
                   THEN /\ lane' = [lane EXCEPT ![l].pc = "failed",
                                                ![l].exc = "TypeError"]
                        /\ mgr' = [mgr EXCEPT !.running = FALSE]
                        /\ UNCHANGED <<putters, caller, reqLog, hist>>
                   ELSE /\ lane' = [lane EXCEPT ![l].pc = "inflight",
                                                ![l].item = r.item,
                                                ![l].req = r.item,
                                                ![l].tries = 1]
                        /\ reqLog' = [reqLog EXCEPT ![l] = Append(@, now)]
                        /\ hist' = [hist EXCEPT !.deq[r.item.id] = @ + 1]
                        /\ IF putters # <<>>
                           THEN /\ caller' = [caller EXCEPT
                                        ![Head(putters)].pc = "put_woken"]
                                /\ putters' = Tail(putters)
                           ELSE UNCHANGED <<putters, caller>>
                        /\ UNCHANGED mgr
    /\ UNCHANGED <<limits, paceTask>>

\* _request_handler, lines 45-59: the lane is at `await get()`, at its start,
\* after gather() returned or after a put() woke it.  get() suspends on an
\* empty queue; else it pops the smallest item, wakes the first waiting
\* putter, and the lane issues the GET.  A TypeError from the pop leaves the
\* coroutine, and the event loop stops with it.  gather() starts the
\* coroutines in the order of self.tasks.
LaneGet(l) ==
    /\ mgr.running
    /\ \/ lane[l].pc = "get" /\ \A b \in mgr.lanes : b < l => lane[b].pc # "get"
       \/ lane[l].pc = "get_woken"
       \/ lane[l].pc = "pace" /\ PaceDone(l)
    /\ IF heap = <<>>
       THEN /\ lane' = [lane EXCEPT ![l].pc = "get_wait"]
            /\ getters' = Append(getters, l)
            /\ UNCHANGED <<mgr, heap, putters, caller, reqLog, hist>>
       ELSE /\ TotalReq < MaxReq
            /\ LET r == heappop(heap) IN
                /\ heap' = r.heap
                /\ UNCHANGED getters
                /\ IF r.err
                   THEN /\ lane' = [lane EXCEPT ![l].pc = "failed",
                                                ![l].exc = "TypeError"]
                        /\ mgr' = [mgr EXCEPT !.running = FALSE]
                        /\ UNCHANGED <<putters, caller, reqLog, hist>>
                   ELSE /\ lane' = [lane EXCEPT ![l].pc = "inflight",
                                                ![l].item = r.item,
                                                ![l].req = r.item,
                                                ![l].tries = 1]
                        /\ reqLog' = [reqLog EXCEPT ![l] = Append(@, now)]
                        /\ hist' = [hist EXCEPT !.deq[r.item.id] = @ + 1]
                        /\ IF putters # <<>>
                           THEN /\ caller' = [caller EXCEPT
                                        ![Head(putters)].pc = "put_woken"]
                                /\ putters' = Tail(putters)
                           ELSE UNCHANGED <<putters, caller>>
                        /\ UNCHANGED mgr
    /\ UNCHANGED <<limits, paceTask>>

\* lines 56-69, a 200 with a decoded body: the callback is made a task of
\* its own, task_done() is called (ValueError when called once too often),
\* and the lane goes on to gather its limits
RespondSuccess(l) ==
    /\ hist' = [hist EXCEPT !.dispatched[lane[l].item.id] = @ + 1]
    /\ UNCHANGED reqLog
    /\ IF mgr.unfinished <= 0
       THEN /\ lane' = [lane EXCEPT ![l] = [lane[l] EXCEPT
                            !.pc = "failed", !.exc = "ValueError"]]
            /\ mgr' = [mgr EXCEPT !.running = FALSE]
       ELSE /\ lane' = [lane EXCEPT ![l] = [lane[l] EXCEPT
                            !.pc = "pace_start", !.item = NoItem,
                            !.req = NoItem, !.tries = 0]]
            /\ mgr' = [mgr EXCEPT !.unfinished = @ - 1]

\* mutant: a failed attempt puts the item back and takes the next one
RespondRetryNow_Mut(l, out) ==
    /\ TotalReq < MaxReq
    /\ heap # <<>>
    /\ lane' = [lane EXCEPT ![l].item = heap[1], ![l].req = heap[1],
                            ![l].tries = @ + 1]
    /\ reqLog' = [reqLog EXCEPT ![l] = Append(@, now)]
    /\ UNCHANGED <<mgr, hist>>

\* lines 57-60, response_body is None (a try_again status, or a 200 whose
\* body did not decode): the GET is issued again for the item in hand
RespondRetryNow(l, out) ==
    /\ TotalReq < MaxReq
    /\ lane' = [lane EXCEPT ![l].req = lane[l].item, ![l].tries = @ + 1]
    /\ reqLog' = [reqLog EXCEPT ![l] = Append(@, now)]
    /\ UNCHANGED <<mgr, hist>>

\* a 429 (sleep inside _handle_response) or a ClientOSError (sleep in the
\* handler): the lane sleeps with the item in hand
RespondRetryLater(l, out, delay) ==
    /\ lane' = [lane EXCEPT ![l] = [lane[l] EXCEPT
                    !.pc = "retry_sleep", !.wake = now + delay]]
    /\ UNCHANGED <<mgr, hist, reqLog>>

\* _handle_response raises (raise_error, abort_request or an unhandled
\* status): the handler catches ClientOSError only, the coroutine ends with
\* the exception, and run()'s run_until_complete(gather(...)) raises it: the
\* event loop stops
RespondRaise(l, out) ==
    /\ lane' = [lane EXCEPT ![l] = [lane[l] EXCEPT
                    !.pc = "failed", !.exc = out]]
    /\ mgr' = [mgr EXCEPT !.running = FALSE]
    /\ UNCHANGED <<hist, reqLog>>

\* the response to the lane's GET arrives and is handled
LaneResponse(l, out) ==
    /\ mgr.running
    /\ lane[l].pc = "inflight"
    /\ CASE out = "Success" -> RespondSuccess(l)
         [] out \in {"NullBody", "Transient"} -> RespondRetryNow(l, out)
         [] out = "RetryAfter" ->
                \E d \in RetryAfterDelays : RespondRetryLater(l, out, d)
         [] out = "OSError" -> RespondRetryLater(l, out, ClientOSErrorSleep)
         [] OTHER -> RespondRaise(l, out)
    /\ UNCHANGED <<heap, putters, getters, caller, limits, paceTask>>

\* the sleep before a retry ends: the GET is issued again
LaneRetryWake(l) ==
    /\ mgr.running
    /\ lane[l].pc = "retry_sleep"
    /\ now >= lane[l].wake
    /\ TotalReq < MaxReq
    /\ lane' = [lane EXCEPT ![l].pc = "inflight", ![l].req = lane[l].item,
                            ![l].tries = @ + 1]
    /\ reqLog' = [reqLog EXCEPT ![l] = Append(@, now)]
    /\ UNCHANGED <<mgr, heap, putters, getters, caller, limits, paceTask, hist>>

\* mutant: the lane awaits the continuations, and with them their schedule
\* calls, before it paces
LanePaceStart_Mut(l) ==
    /\ mgr.running
    /\ lane[l].pc = "pace_start"
    /\ \A c \in Callers : caller[c].pc \notin {"put_wait", "put_woken"}
    /\ LET r == [i \in DOMAIN limits[l] |-> DurationRateLimit_call(limits[l][i], now)]
       IN  /\ limits' = [limits EXCEPT ![l] = [i \in DOMAIN r |-> r[i].self]]
           /\ paceTask' = [paceTask EXCEPT ![l] = [i \in DOMAIN r |->
                    IF r[i].sleep THEN [pc |-> "sleeping", wake |-> r[i].wake]
                    ELSE TaskIdle]]
           /\ lane' = [lane EXCEPT ![l].pc = "pace"]
    /\ UNCHANGED <<mgr, heap, putters, getters, caller, reqLog, hist>>

\* lines 72-74: gather() starts limit() for every limit of the lane
LanePaceStart(l) ==
    /\ mgr.running
    /\ lane[l].pc = "pace_start"
    /\ LET r == [i \in DOMAIN limits[l] |-> DurationRateLimit_call(limits[l][i], now)]
       IN  /\ limits' = [limits EXCEPT ![l] = [i \in DOMAIN r |-> r[i].self]]
           /\ paceTask' = [paceTask EXCEPT ![l] = [i \in DOMAIN r |->
                    IF r[i].sleep THEN [pc |-> "sleeping", wake |-> r[i].wake]
                    ELSE TaskIdle]]
           /\ lane' = [lane EXCEPT ![l].pc = "pace"]
    /\ UNCHANGED <<mgr, heap, putters, getters, caller, reqLog, hist>>

\* the sleep of a stalled limit() ends
LimitWake(l, i) ==
    /\ mgr.running
    /\ lane[l].pc = "pace"
    /\ paceTask[l][i].pc = "sleeping"
    /\ now >= paceTask[l][i].wake
    /\ limits' = [limits EXCEPT ![l][i] = DurationRateLimit_resume(@, now)]
    /\ paceTask' = [paceTask EXCEPT ![l][i] = TaskIdle]
    /\ UNCHANGED <<mgr, heap, putters, getters, caller, lane, reqLog, hist>>

MgrTick ==
    /\ mgr.running
    /\ now < MgrMaxTime
    /\ now' = now + 1
    /\ UNCHANGED mgrVars

\* ------------------------------------------------- specifications
AbsOff == abs = AbsoluteRateLimit(0) /\ absHist = AbsIdle
DurOff == dur = DurationRateLimit(0, 0, 0) /\ durTask = TaskIdle /\ durLog = <<>>
RndOff ==
    /\ rnd = RandomizedDurationRateLimit(0, 0, 0, <<>>)
    /\ rndTask = TaskIdle
    /\ rndHist = RndIdle

MgrOff ==
    /\ mgr = [maxsize |-> 0, lanes |-> {}, running |-> FALSE,
              nextId |-> 1, nextSeq |-> 1, unfinished |-> 0]
    /\ heap = <<>>
    /\ putters = <<>>
    /\ getters = <<>>
    /\ caller = [c \in Callers |-> CallerIdle]
    /\ lane = [l \in Lanes |-> LaneOff]
    /\ limits = [l \in Lanes |-> <<>>]
    /\ paceTask = [l \in Lanes |-> <<>>]
    /\ reqLog = [l \in Lanes |-> <<>>]
    /\ hist = HistIdle
    /\ answer = [l \in Lanes |-> "none"]

SpecAbsInit == now = 0 /\ AbsInit /\ DurOff /\ RndOff /\ MgrOff
SpecAbsNext ==
    \/ AbsPace /\ UNCHANGED <<now, durVars, rndVars, mgrVars, answer>>
    \/ AbsReset /\ UNCHANGED <<now, durVars, rndVars, mgrVars, answer>>
SpecAbs == SpecAbsInit /\ [][SpecAbsNext]_vars

SpecDurInit == now = 0 /\ DurInit /\ AbsOff /\ RndOff /\ MgrOff
SpecDurNext ==
    \/ Tick /\ UNCHANGED <<absVars, durVars, rndVars, mgrVars, answer>>
    \/ DurPace /\ UNCHANGED <<now, absVars, rndVars, mgrVars, answer>>
    \/ DurWake /\ UNCHANGED <<now, absVars, rndVars, mgrVars, answer>>
SpecDur == SpecDurInit /\ [][SpecDurNext]_vars

SpecRndInit == now = 0 /\ RndInit /\ AbsOff /\ DurOff /\ MgrOff
SpecRndNext ==
    \/ Tick /\ UNCHANGED <<absVars, durVars, rndVars, mgrVars, answer>>
    \/ RndPace /\ UNCHANGED <<now, absVars, durVars, mgrVars, answer>>
    \/ RndWakeReset /\ UNCHANGED <<now, absVars, durVars, mgrVars, answer>>
    \/ RndWakeSlot /\ UNCHANGED <<now, absVars, durVars, mgrVars, answer>>
    \/ RndReset /\ UNCHANGED <<now, absVars, durVars, mgrVars, answer>>
SpecRnd == SpecRndInit /\ [][SpecRndNext]_vars

limVars == <<abs, absHist, dur, durTask, durLog, rnd, rndTask, rndHist>>
offVars == <<limVars, answer>>
SpecMgrInit == now = 0 /\ MgrInit /\ AbsOff /\ DurOff /\ RndOff
SpecMgrNext ==
    \/ MgrTick /\ UNCHANGED offVars
    \/ \E c \in Callers, k \in ItemKinds : Schedule(c, k) /\ UNCHANGED <<now, offVars>>
    \/ \E c \in Callers : PutResume(c) /\ UNCHANGED <<now, offVars>>
    \/ \E l \in mgr.lanes : LaneGet(l) /\ UNCHANGED <<now, offVars>>
    \/ \E l \in mgr.lanes, out \in Outcomes : LaneResponse(l, out) /\ UNCHANGED <<now, offVars>>
    \/ \E l \in mgr.lanes : LaneRetryWake(l) /\ UNCHANGED <<now, offVars>>
    \/ \E l \in mgr.lanes : LanePaceStart(l) /\ UNCHANGED <<now, offVars>>
    \/ \E l \in mgr.lanes, i \in {1} : LimitWake(l, i) /\ UNCHANGED <<now, offVars>>
SpecMgr == SpecMgrInit /\ [][SpecMgrNext]_vars

\* schedule() calls with one url and one callback, of two priorities
LiveKinds == {k \in ItemKinds : k.url = 1 /\ k.cb = "f"}

\* A manager run with the answers to the lanes' requests observed: one url
\* and one callback, lanes of one or of two limiters.
ObsLimitSets ==
    {<<DurationRateLimit(1, 1, 0)>>,
     <<DurationRateLimit(1, 1, 0), DurationRateLimit(1, 2, 0)>>}

SpecObsInit ==
    /\ now = 0 /\ AbsOff /\ DurOff /\ RndOff
    /\ \E ls \in {{1}, Lanes}, k \in MaxSizes, lim \in ObsLimitSets :
        /\ mgr = [maxsize |-> k, lanes |-> ls, running |-> TRUE,
                  nextId |-> 1, nextSeq |-> 1, unfinished |-> 0]
        /\ lane = [l \in Lanes |-> IF l \in ls THEN [LaneOff EXCEPT !.pc = "get"]
                                   ELSE LaneOff]
        /\ limits = [l \in Lanes |-> lim]
        /\ paceTask = [l \in Lanes |-> [i \in DOMAIN lim |-> TaskIdle]]
    /\ heap = <<>>
    /\ putters = <<>>
    /\ getters = <<>>
    /\ caller = [c \in Callers |-> CallerIdle]
    /\ reqLog = [l \in Lanes |-> <<>>]
    /\ hist = HistIdle
    /\ answer = [l \in Lanes |-> "none"]

ObsResponse(l, out) ==
    /\ LaneResponse(l, out)
    /\ answer' = [answer EXCEPT ![l] = out]

SpecObsNext ==
    \/ MgrTick /\ UNCHANGED <<limVars, answer>>
    \/ \E c \in Callers, k \in LiveKinds : Schedule(c, k) /\ UNCHANGED <<now, limVars, answer>>
    \/ \E c \in Callers : PutResume(c) /\ UNCHANGED <<now, limVars, answer>>
    \/ \E l \in mgr.lanes : LaneGet(l) /\ UNCHANGED <<now, limVars, answer>>
    \/ \E l \in mgr.lanes, out \in Outcomes : ObsResponse(l, out) /\ UNCHANGED <<now, limVars>>
    \/ \E l \in mgr.lanes : LaneRetryWake(l) /\ UNCHANGED <<now, limVars, answer>>
    \/ \E l \in mgr.lanes : LanePaceStart(l) /\ UNCHANGED <<now, limVars, answer>>
    \/ \E l \in mgr.lanes : \E i \in DOMAIN limits[l] : LimitWake(l, i) /\ UNCHANGED <<now, limVars, answer>>
SpecObs == SpecObsInit /\ [][SpecObsNext]_vars

\* A manager run observed for progress.  The queue is bounded, every request
\* attempt is answered with a success or a transient outcome, and the clock
\* goes on for as long as a sleeper waits for it.  The event loop runs every
\* task that is ready and fires every timer that is due: weak fairness of the
\* steps of the lanes, of the woken put() calls and of the clock.  Nothing
\* obliges a task to call schedule().
LiveOutcomes == {"Success", "Transient", "RetryAfter"}

\* a lane sleeps, or gathers a sleeping limit(), with a deadline ahead
SleeperAhead ==
    \E l \in mgr.lanes :
        \/ lane[l].pc = "retry_sleep" /\ lane[l].wake > now
        \/ /\ lane[l].pc = "pace"
           /\ \E i \in DOMAIN paceTask[l] :
                paceTask[l][i].pc = "sleeping" /\ paceTask[l][i].wake > now

LiveTick ==
    /\ mgr.running
    /\ SleeperAhead
    /\ now' = now + 1
    /\ UNCHANGED mgrVars

LiveResponse(l) == \E out \in LiveOutcomes : LaneResponse(l, out)

SpecLiveInit == SpecMgrInit /\ mgr.maxsize > 0
SpecLiveNext ==
    \/ LiveTick /\ UNCHANGED offVars
    \/ \E c \in Callers, k \in LiveKinds : Schedule(c, k) /\ UNCHANGED <<now, offVars>>
    \/ \E c \in Callers : PutResume(c) /\ UNCHANGED <<now, offVars>>
    \/ \E l \in mgr.lanes : LaneGet(l) /\ UNCHANGED <<now, offVars>>
    \/ \E l \in mgr.lanes : LiveResponse(l) /\ UNCHANGED <<now, offVars>>
    \/ \E l \in mgr.lanes : LaneRetryWake(l) /\ UNCHANGED <<now, offVars>>
    \/ \E l \in mgr.lanes : LanePaceStart(l) /\ UNCHANGED <<now, offVars>>
    \/ \E l \in mgr.lanes, i \in {1} : LimitWake(l, i) /\ UNCHANGED <<now, offVars>>
LiveFairness ==
    /\ WF_vars(LiveTick /\ UNCHANGED offVars)
    /\ \A c \in Callers : WF_vars(PutResume(c) /\ UNCHANGED <<now, offVars>>)
    /\ \A l \in Lanes :
        /\ WF_vars(LaneGet(l) /\ UNCHANGED <<now, offVars>>)
        /\ WF_vars(LiveResponse(l) /\ UNCHANGED <<now, offVars>>)
        /\ WF_vars(LaneRetryWake(l) /\ UNCHANGED <<now, offVars>>)
        /\ WF_vars(LanePaceStart(l) /\ UNCHANGED <<now, offVars>>)
        /\ WF_vars(LimitWake(l, 1) /\ UNCHANGED <<now, offVars>>)
SpecLive == SpecLiveInit /\ [][SpecLiveNext]_vars /\ LiveFairness

\* ------------------------------------------------- claims

\* C5: a pace call on HardCap(count) succeeds if and only if fewer than count
\* pace calls have succeeded since the last reset (or construction); a failing
\* call raises and leaves the counter unchanged; so never more than count
\* calls succeed between two resets.
C5_HardCap ==
    /\ absHist.succ <= abs.count
    /\ absHist.last = "ok" =>
        /\ absHist.succBefore < abs.count
        /\ abs._count = absHist.usedBefore + 1
    /\ absHist.last = "raised" =>
        /\ absHist.succBefore >= abs.count
        /\ abs._count = absHist.usedBefore

\* C5 witness: after a reset, count >= 1 further calls succeeded and the next
\* one was refused
C5_Witness ==
    /\ abs.count >= 1
    /\ absHist.resets >= 1
    /\ absHist.last = "raised"
    /\ absHist.succ = abs.count

\* C1: no more than count pace() calls return within any interval of length
\* duration, wherever the interval starts
C1_SlidingCap ==
    dur.count >= 1 =>
    \A s \in 0..MaxTime :
        Cardinality({i \in DOMAIN durLog :
            durLog[i] >= s /\ durLog[i] < s + dur.duration}) <= dur.count

\* the slot sequence of a jittered limiter and the order of consumption
RndSlotsWellFormed ==
    /\ Len(rnd._request_times) = rnd.count
    /\ IsSorted(rnd._request_times)
    /\ \A i \in DOMAIN rnd._request_times :
        /\ rnd._request_times[i] >= rnd._time
        /\ rnd._request_times[i] <= rnd._time + rnd.duration
    /\ rndHist.consumed = SubSeq(rnd._request_times, 1, rnd._count)
    /\ IsSorted(rndHist.consumed)

\* no slot of the current window is earlier than a slot of the previous one
RndNoOverlap ==
    \A i \in DOMAIN rnd._request_times, j \in DOMAIN rndHist.prev :
        rnd._request_times[i] >= rndHist.prev[j]

\* C10 as stated: with count >= 1 the slot sequence has count entries, sorted,
\* inside [windowStart, windowStart + duration], consumed in index order, and
\* a window started by any reset does not overlap the previous window
C10_AnyReset ==
    rnd.count >= 1 =>
        /\ RndSlotsWellFormed
        /\ rndHist.by \in {"pace", "reset"} => RndNoOverlap

\* C10 amended: as C10, the windows that do not overlap being those pace()
\* itself starts (on exhaustion or expiry of the previous window)
C10_PaceReset ==
    rnd.count >= 1 =>
        /\ RndSlotsWellFormed
        /\ rndHist.by = "pace" => RndNoOverlap

\* C10 witness: a second window started by pace(), both of its two distinct
\* slots consumed
C10_Witness ==
    /\ rnd.count = 2
    /\ rndHist.by = "pace"
    /\ Len(rndHist.prev) = 2
    /\ rnd._count = 2
    /\ Len(rndHist.consumed) = 2
    /\ rndHist.consumed[1] < rndHist.consumed[2]

\* the items dequeued so far
Dequeued == {i \in 1..MaxItems : hist.deq[i] > 0}

Stalled(l) == \E i \in DOMAIN paceTask[l] : paceTask[l][i].pc = "sleeping"

\* C2: a single lane with one SlidingWindowCap(duration, n), items of equal
\* priority, every request succeeding at once: the first n requests go out
\* before any stall of the limiter, and the request for item n + 1 does not go
\* out while the window that started at construction is still open
C2_BurstThenStall ==
    \A l \in Lanes :
        (mgr.lanes = {l} /\ Len(limits[l]) = 1 /\ reqLog[l] # <<>>) =>
            LET lim == limits[l][1] IN
            /\ Stalled(l) => Len(reqLog[l]) >= lim.count
            /\ ( /\ Cardinality(hist.prios) = 1
                 /\ Len(reqLog[l]) = Cardinality(Dequeued)
                 /\ now = reqLog[l][1]
                 /\ now < lim.duration )
               => Cardinality(Dequeued) <= lim.count

\* C3: a lane that dequeues takes an item of the smallest priority in the
\* queue and, among the items of that priority, the one whose schedule call
\* completed first
C3_DequeueOrder ==
    [][\A l \in Lanes :
        (lane[l].item = NoItem /\ lane'[l].item # NoItem) =>
            \A i \in DOMAIN heap :
                heap[i].id # lane'[l].item.id =>
                    \/ lane'[l].item.prio < heap[i].prio
                    \/ /\ lane'[l].item.prio = heap[i].prio
                       /\ lane'[l].item.seq < heap[i].seq]_vars

Suspended(c) == caller[c].pc \in {"put_wait", "put_woken"}

\* a lane takes an item from the queue in this step
SomeDequeue == \E l \in Lanes : lane[l].item = NoItem /\ lane'[l].item # NoItem

C4_QueueBound ==
    /\ mgr.maxsize > 0 => Len(heap) <= mgr.maxsize
    /\ \A c \in Callers : Suspended(c) =>
        /\ mgr.maxsize > 0
        /\ caller[c].item.id \notin HeapIds

C4_Step ==
    /\ mgr'.nextId # mgr.nextId =>
        IF mgr.maxsize > 0 /\ Len(heap) = mgr.maxsize
        THEN /\ heap' = heap
             /\ \E c \in Callers : ~Suspended(c) /\ caller'[c].pc = "put_wait"
        ELSE /\ mgr.nextId \in {heap'[i].id : i \in DOMAIN heap'}
             /\ \A c \in Callers : Suspended(c)' => Suspended(c)
    /\ \A c \in Callers :
        /\ (caller[c].pc = "put_wait" /\ caller'[c].pc # "put_wait") =>
                caller'[c].pc = "put_woken" /\ SomeDequeue
        /\ (caller[c].pc = "put_woken" /\ ~Suspended(c)') =>
                /\ Len(heap) < mgr.maxsize
                /\ caller[c].item.id \in {heap'[i].id : i \in DOMAIN heap'}

\* C4: with max_requests_inflight = K > 0 the queue never holds more than K
\* items; a schedule call made on a queue of K items enqueues nothing and
\* stays suspended until a lane dequeues; a schedule call made on a queue of
\* fewer items enqueues without suspending; with K = 0 no schedule call is
\* ever suspended
C4_Backpressure == []C4_QueueBound /\ [][C4_Step]_vars

\* C4 witness: a bounded queue, a schedule call that was suspended on the
\* full queue and woken by a dequeue, about to enqueue
C4_Witness ==
    \E c \in Callers :
        /\ caller[c].pc = "put_woken"
        /\ mgr.maxsize > 0
        /\ Len(heap) < mgr.maxsize
        /\ \E d \in Callers : caller[d].pc = "put_wait"
        /\ \E l \in Lanes : lane[l].pc = "inflight"

\* the event loop still runs the lane's coroutine
LaneRuns(l) == mgr.running /\ lane[l].pc \notin {"off", "failed"}

\* C6: after a FatalFailure in one lane of several, that lane has stopped
\* and every other lane goes on running
C6_FatalStopsOneLane ==
    \A a \in mgr.lanes :
        lane[a].exc = "Fatal" =>
            /\ lane[a].pc = "failed"
            /\ \A b \in mgr.lanes \ {a} : LaneRuns(b)

\* C7: after a CancelFailure the item in hand is dropped (no continuation,
\* not queued again) and the lane itself goes on running
C7_CancelDropsItem ==
    \A l \in mgr.lanes :
        lane[l].exc = "Cancel" =>
            /\ hist.dispatched[lane[l].req.id] = 0
            /\ lane[l].req.id \notin HeapIds
            /\ LaneRuns(l)

\* C8: a lane that holds an item and is answered with a transient outcome
\* keeps that item: its next GET is for the identical item, it dequeues and
\* enqueues nothing in between, and the item is not in the queue again
C8_RetrySameItem ==
    [][\A l \in Lanes :
        ( /\ lane[l].pc \in {"inflight", "retry_sleep"}
          /\ lane'[l].pc \in {"inflight", "retry_sleep"} ) =>
            /\ lane'[l].item = lane[l].item
            /\ lane'[l].req = lane[l].item
            /\ lane[l].item.id \notin {heap'[i].id : i \in DOMAIN heap'}
            /\ hist'.deq[lane[l].item.id] = 1
            /\ Len(reqLog'[l]) > Len(reqLog[l]) => heap' = heap]_vars

\* C8 witness: the third GET for one item is in flight while another item
\* waits in the queue
C8_Witness ==
    \E l \in Lanes :
        /\ lane[l].pc = "inflight"
        /\ lane[l].tries = 3
        /\ lane[l].req = lane[l].item
        /\ heap # <<>>

\* C9: each enqueued item is dequeued at most once, is not in the queue once
\* dequeued, and is never in hand of two lanes
C9_AtMostOnce ==
    /\ Cardinality(HeapIds) = Len(heap)
    /\ \A i \in 1..MaxItems :
        /\ hist.deq[i] <= 1
        /\ hist.deq[i] = 1 => i \notin HeapIds
    /\ \A a, b \in Lanes :
        (a # b /\ lane[a].item # NoItem /\ lane[b].item # NoItem) =>
            lane[a].item.id # lane[b].item.id

\* C9 witness: two lanes hold one item each, a third item is queued and a
\* schedule call is suspended
C9_Witness ==
    /\ lane[1].pc = "inflight"
    /\ lane[2].pc = "inflight"
    /\ lane[1].item.id # lane[2].item.id
    /\ heap # <<>>
\* C11: with only pace() calls made on a jittered limiter, no more than count
\* of them return within any interval of length duration
C11_JitteredCap ==
    (rnd.count >= 1 /\ ~rndHist.ext) =>
        \A s \in 0..MaxTime :
            Cardinality({i \in DOMAIN rndHist.log :
                rndHist.log[i] >= s /\ rndHist.log[i] < s + rnd.duration})
                    <= rnd.count

\* the number of dequeues made so far
NDeq == Cardinality(Dequeued)

\* nothing more is promised: the event loop has stopped on an exception of a
\* lane, or the run has issued all the requests it is observed for
LiveDone == ~mgr.running \/ TotalReq >= MaxReq

\* C12: with a bounded queue, tasks that call schedule() while the lanes run
\* (continuations among them), a live lane and attempts that are answered: a
\* non-empty queue is dequeued again, and every schedule call that is
\* suspended on the full queue completes
C12_NoDeadlock ==
    /\ \A n \in 0..MaxItems :
        (heap # <<>> /\ NDeq = n) ~> (NDeq > n \/ LiveDone)
    /\ \A c \in Callers :
        Suspended(c) ~> (~Suspended(c) \/ LiveDone)

\* C12 witness: a lane has dispatched a continuation, paced and dequeued the
\* next item while a schedule call was suspended on the full queue; the call
\* is woken and the queue has room for it
C12_Witness ==
    \E l \in Lanes, c \in Callers :
        /\ lane[l].pc = "inflight"
        /\ \E i \in 1..MaxItems : hist.dispatched[i] = 1
        /\ caller[c].pc = "put_woken"
        /\ ~Full(heap, mgr.maxsize)
        /\ TotalReq < MaxReq

\* the lane's request attempt is answered in this step
Answered(l) == lane[l].pc = "inflight" /\ lane'[l] # lane[l]

\* C13: the continuation of the item in hand is dispatched in the step in
\* which an attempt is answered with a success (a 200), whatever the payload,
\* a null one included, and in no other step; it is dispatched once, and the
\* lane then goes on to pace and requests nothing more for the item
C13_DispatchOnSuccess ==
    [][\A l \in Lanes : Answered(l) =>
        LET id == lane[l].item.id IN
        IF answer'[l] \in {"Success", "NullBody"}
        THEN /\ hist.dispatched[id] = 0
             /\ hist'.dispatched[id] = 1
             /\ lane'[l].pc = "pace_start"
             /\ reqLog'[l] = reqLog[l]
        ELSE hist'.dispatched = hist.dispatched]_vars

\* C14: first attempts and retries together, a lane issues no more GETs within
\* any interval of length duration than the count of any of its limiters
C14_RequestsWithinQuota ==
    \A l \in mgr.lanes : \A i \in DOMAIN limits[l] : \A s \in 0..MgrMaxTime :
        Cardinality({k \in DOMAIN reqLog[l] :
            reqLog[l][k] >= s /\ reqLog[l][k] < s + limits[l][i].duration})
                <= limits[l][i].count

\* lane l takes an item from the queue in this step
Dequeues(l) == lane[l].item = NoItem /\ lane'[l].item # NoItem

\* C15: a lane that has finished an item (continuation dispatched) calls
\* pace() once on every limit of its set, in one step, and dequeues again only
\* when all of these calls have returned, so not before the latest of the
\* times at which its limits released it
C15_PaceAllBeforeDequeue ==
    [][\A l \in Lanes :
        /\ (lane[l].pc = "inflight" /\ hist'.dispatched # hist.dispatched
                /\ lane'[l].pc # "inflight") =>
                lane'[l].pc \in {"pace_start", "failed"}
        /\ (lane[l].pc = "pace_start" /\ lane'[l] # lane[l]) =>
            /\ lane'[l].pc = "pace"
            /\ \A i \in DOMAIN limits[l] :
                LET r == DurationRateLimit_call(limits[l][i], now) IN
                /\ limits'[l][i] = r.self
                /\ (paceTask'[l][i].pc = "sleeping") = r.sleep
        /\ (lane[l].pc = "pace" /\ lane'[l] # lane[l]) =>
            /\ \A i \in DOMAIN limits[l] :
                /\ paceTask[l][i].pc = "idle"
                /\ limits'[l][i] = limits[l][i]
                /\ now >= limits[l][i]._time
            /\ lane'[l].pc \in {"inflight", "get_wait", "failed"}
        /\ (lane[l].pc = "pace" /\ lane'[l] = lane[l]) =>
            \A i \in DOMAIN limits[l] :
                limits'[l][i] # limits[l][i] =>
                    /\ paceTask[l][i].pc = "sleeping"
                    /\ paceTask'[l][i].pc = "idle"
                    /\ now >= paceTask[l][i].wake
        /\ Dequeues(l) =>
            lane[l].pc \in {"get", "get_woken", "pace"}]_vars

\* C15 witness: a lane of two limits has finished an item, called both
\* limits, one of which stalled and has released it after its window, and is
\* about to dequeue the next item
C15_Witness ==
    \E l \in Lanes :
        /\ Len(limits[l]) = 2
        /\ lane[l].pc = "pace"
        /\ PaceDone(l)
        /\ limits[l][1]._time > 0
        /\ limits[l][2]._count = 2
        /\ heap # <<>>
        /\ TotalReq < MaxReq

\* C16: a lane whose attempt is answered with a TransientFailure (a status of
\* try_again) keeps the item, issues no request in that step and sleeps for a
\* positive delay before the next attempt
C16_TransientDelay ==
    [][\A l \in Lanes : (Answered(l) /\ answer'[l] = "Transient") =>
        /\ lane'[l].item = lane[l].item
        /\ reqLog'[l] = reqLog[l]
        /\ lane'[l].pc = "retry_sleep"
        /\ lane'[l].wake > now]_vars

\* usedCount <= limitCount, for the jittered limiter usedCount <= length(slots)
UsedWithinLimit ==
    /\ dur._count <= dur.count
    /\ rnd._count <= Len(rnd._request_times)

\* C17: for both windowed limiters and every count >= 0 the used count never
\* exceeds the limit count (the number of slots), and the window start never
\* decreases from one state to the next
C17_WindowInvariant ==
    /\ []UsedWithinLimit
    /\ [][dur._time' >= dur._time /\ rnd._time' >= rnd._time]_vars

\* C18: on a jittered limiter constructed with count = 0 no pace() call ever
\* returns to its caller: a call is suspended, or it has ended with an
\* exception, and no slot is ever consumed
C18_ZeroNeverAuthorizes ==
    rnd.count = 0 =>
        /\ rndHist.log = <<>>
        /\ rndHist.consumed = <<>>
        /\ rndHist.last \in {"none", "waiting", "IndexError", "reset"}
        /\ rnd._count = 0
        /\ rnd._request_times = <<>>

\* C18 witness: count = 0, two pace() calls have been made, each slept to the
\* end of its window and then ended with IndexError
C18_Witness ==
    /\ rnd.count = 0
    /\ rndHist.ops = 2
    /\ rndHist.windows = 2
    /\ rndHist.last = "IndexError"
    /\ rndTask.pc = "idle"

\* no schedule call and no lane has ended with the TypeError of a comparison
NoTypeError ==
    /\ \A c \in Callers : caller[c].pc # "failed"
    /\ \A l \in Lanes : lane[l].exc # "TypeError"

\* C19: the key (priority, enqueue timestamp) alone decides; scheduling and
\* dequeuing items of equal priority and equal timestamp, of equal or of
\* different urls, never fails and never ends a lane, and a lane that
\* dequeues one of them leaves none in the queue whose schedule call
\* completed earlier
C19_TieBreak ==
    /\ []NoTypeError
    /\ [][\A l \in Lanes : Dequeues(l) =>
            \A i \in DOMAIN heap :
                ( /\ heap[i].id # lane'[l].item.id
                  /\ heap[i].prio = lane'[l].item.prio
                  /\ heap[i].ts = lane'[l].item.ts ) =>
                        lane'[l].item.seq < heap[i].seq]_vars

\* the schedule calls that have been made and are not suspended in put()
Scheduled ==
    {i \in 1..MaxItems :
        /\ i < mgr.nextId
        /\ \A c \in Callers : Suspended(c) => caller[c].item.id # i}

\* the places an item is in: positions of the queue, lanes that hold it (live,
\* or terminated on an exception), and the completed items
PlacesOf(i) ==
    Cardinality({k \in DOMAIN heap : heap[k].id = i})
    + Cardinality({l \in Lanes : lane[l].item.id = i})
    + (IF hist.dispatched[i] > 0 THEN 1 ELSE 0)

\* C20: every item whose schedule call completed is in exactly one place: the
\* queue, the hand of one lane (live, or terminated on an exception), or
\* completed with its continuation dispatched once; the count of unfinished
\* tasks is the number of items queued or in hand and is never negative
\* (stated for the runs in which every schedule call returned normally)
C20_ItemConservation ==
    (\A c \in Callers : caller[c].pc # "failed") =>
        /\ \A i \in Scheduled :
            /\ PlacesOf(i) = 1
            /\ hist.dispatched[i] <= 1
        /\ mgr.unfinished >= 0
        /\ mgr.unfinished =
                Len(heap) + Cardinality({l \in Lanes : lane[l].item # NoItem})
====
